---- MODULE Spec2Model ----
(***************************************************************************)
(* Crawl orchestration core of the Playwright scraper: Crawler.init,      *)
(* Crawler.start, Crawler.processUrl, Crawler.downloadBinaryFile,         *)
(* Crawler.shouldCrawl, Crawler.updateReport, Crawler.cleanup, the SIGINT *)
(* handler, and Utils.sanitizeFilename.                                   *)
(*                                                                         *)
(* A URL is a sequence of tokens: the hostname first, then the characters *)
(* of the path, query and fragment.  A maximal run of letters and digits  *)
(* is one token ("admin", "PDF"); every other character is a token of its *)
(* own ("/", ".", "?", "#", "-").  All URLs are http(s) and parse.         *)
(*                                                                         *)
(* The main flow is one async call chain; pc is the await it is suspended *)
(* at.  The SIGINT handler is a second async chain (sigpc).  A report     *)
(* write (fs.outputJson) serialises the summary when it is called and     *)
(* finishes later; inflight holds the owners of unfinished writes.        *)
(***************************************************************************)
EXTENDS Integers, Sequences, FiniteSets, TLC

\* ------------------------------------------------------------------ bounds
MaxDepthCfg == 1      \* max_depth is drawn from 0..MaxDepthCfg
MaxRuns     == 2      \* process launches over one output directory
MaxEvents   == 1      \* environment events over all launches: a renderer or
                      \* filesystem error, or an interrupt signal

\* -------------------------------------------------------- program constants
MaxNameLen == 200     \* substring(0, 200) in sanitizeFilename

\* -------------------------------------------------------------- the site
StartHost == "support.ex.com"
SubHost   == "dash.ex.com"
ExtHost   == "other.com"

Seed   == <<StartHost, "/">>
UA     == <<StartHost, "/", "a">>
UAq    == <<StartHost, "/", "a", "?", "q">>
UAdmin == <<StartHost, "/", "admin", "/", "x", ".", "zip">>
UPdf   == <<StartHost, "/", "r", ".", "PDF">>
UDoc   == <<StartHost, "/", "docs", "/", "guide">>
USub   == <<SubHost, "/">>
UExt   == <<ExtHost, "/">>

\* anchors of each page, in document order (already filtered to http hrefs)
Anchors(u) ==
    IF u = Seed THEN << UA \o <<"#", "top">>, UAdmin, UPdf, UDoc, USub, UExt, UA, UAq >>
    ELSE IF u = UA THEN << Seed, UAq, UPdf >>
    ELSE IF u = UAq THEN << UA, UDoc >>
    ELSE IF u = UAdmin THEN << UA >>
    ELSE << >>

\* URLs the server answers with content-type application/pdf
ServedAsPdf == {UPdf, UDoc}

\* URLs whose navigation or fetch always ends in an error (a dead link)
Dead == {UAdmin}

\* tldts getDomain: registrable domain of a hostname
getRootDomain(u) ==
    IF u[1] \in {StartHost, SubHost} THEN "ex.com" ELSE "other.com"

\* ------------------------------------------------------- string helpers
Min(a, b) == IF a < b THEN a ELSE b

\* index of the first token of s that is in S, or Len(s) + 1
FirstIdx(s, S) ==
    IF \E i \in 1..Len(s) : s[i] \in S
    THEN CHOOSE i \in 1..Len(s) : s[i] \in S /\ \A j \in 1..(i - 1) : s[j] \notin S
    ELSE Len(s) + 1

\* String.prototype.includes
includes(s, p) == \E i \in 0..(Len(s) - Len(p)) : SubSeq(s, i + 1, i + Len(p)) = p

\* link.split('#')[0]
splitHash(link) == SubSeq(link, 1, FirstIdx(link, {"#"}) - 1)

\* new URL(url).hostname
hostname(u) == u[1]

\* new URL(url).pathname
pathname(u) == SubSeq(u, 2, FirstIdx(u, {"?", "#"}) - 1)

IsAlnum(t) == t \notin {"/", ".", "?", "#", "-", "_", "=", "&"}

toLowerCase(t) == IF t = "PDF" THEN "pdf" ELSE IF t = "HTML" THEN "html" ELSE t

\* "" stands for null: both are falsy where the result is tested
getFileExtension(u) ==
    LET p == pathname(u) IN
    IF Len(p) >= 2 /\ p[Len(p) - 1] = "." /\ IsAlnum(p[Len(p)])
    THEN toLowerCase(p[Len(p)]) ELSE ""

RECURSIVE stripLeading(_)
stripLeading(s) == IF s # << >> /\ Head(s) = "/" THEN stripLeading(Tail(s)) ELSE s

RECURSIVE stripTrailing(_)
stripTrailing(s) ==
    IF s # << >> /\ s[Len(s)] = "/" THEN stripTrailing(SubSeq(s, 1, Len(s) - 1)) ELSE s

replaceSpecial_keepSlash(s) ==
    [i \in 1..Len(s) |-> IF IsAlnum(s[i]) \/ s[i] \in {"-", "_", "/"} THEN s[i] ELSE "-"]

\* replace(/\//g, '-') then replace(/[^a-zA-Z0-9\-_]/g, '-')
replaceSpecial(s) == [i \in 1..Len(s) |-> IF IsAlnum(s[i]) \/ s[i] \in {"-", "_"} THEN s[i] ELSE "-"]

\* replace(/-+/g, '-')
RECURSIVE collapseHyphens(_)
collapseHyphens(s) ==
    IF Len(s) < 2 THEN s
    ELSE IF s[1] = "-" /\ s[2] = "-" THEN collapseHyphens(Tail(s))
    ELSE <<s[1]>> \o collapseHyphens(Tail(s))

sanitizeFilename(u) ==
    LET stripped == stripTrailing(stripLeading(pathname(u)))
        named    == IF stripped = << >> THEN <<"index">> ELSE stripped
        clean    == collapseHyphens(replaceSpecial(named))
    IN SubSeq(clean, 1, Min(Len(clean), MaxNameLen))


Range(s) == {s[i] : i \in 1..Len(s)}

\* ------------------------------------------------------- configurations
NoFilter ==
    [blocked_paths |-> {}, blocked_hosts |-> {}, allowed_external_domains |-> {}]
PathFilter ==
    [blocked_paths |-> {<<"/", "admin">>}, blocked_hosts |-> {SubHost},
     allowed_external_domains |-> {"other.com"}]
HostFilter ==
    [blocked_paths |-> {}, blocked_hosts |-> {StartHost}, allowed_external_domains |-> {}]

\* file_types with the link filters and the start_url it is tried with
Profiles ==
    { <<{"web"}, NoFilter, Seed>>, <<{"web"}, HostFilter, Seed>>,
      <<{"web", "pdf"}, PathFilter, Seed>>, <<{"pdf"}, NoFilter, Seed>>,
      <<{"all"}, NoFilter, Seed>>, <<{"pdf"}, NoFilter, UDoc>> }

Configs ==
    { [start_url |-> p[3], max_depth |-> d, file_types |-> p[1], run_mode |-> m,
       blocked_paths |-> p[2].blocked_paths, blocked_hosts |-> p[2].blocked_hosts,
       allowed_external_domains |-> p[2].allowed_external_domains,
       resume_from |-> FALSE] :
      d \in 0..MaxDepthCfg, p \in Profiles, m \in {"dry_run", "full_run"} }

\* ------------------------------------------------------------------ state
VARIABLES
    cfg,             \* CrawlerConfig of the running process
    run,             \* number of the process launch (scraped_at stands for its clock)
    exit,            \* "running", or how the process ended
    pc,              \* await the main flow is suspended at
    cur,             \* QueueItem being processed
    isResumed,       \* processUrl local
    throwing,        \* an exception is propagating through processUrl's finally
    dom,             \* URL whose document is loaded in the page
    visited, queue, summary, previousScraped,
    browserOpen,     \* this.browser is launched and not closed
    handler,         \* SIGINT handler registered
    sigpc,           \* await the SIGINT handler is suspended at
    disk,            \* scraping_summary.json
    files,           \* content files of the export directory: [name, src, by]
    inflight,        \* owners of report writes in progress
    wsnap,           \* what each write in progress is writing
    clash,           \* writes in progress have overlapped
    events,          \* environment events so far
    hist             \* history of this launch (observation only)

vars == << cfg, run, exit, pc, cur, isResumed, throwing, dom, visited, queue, summary,
           previousScraped, browserOpen, handler, sigpc, disk, files, inflight, wsnap,
           clash, events, hist >>

\* the constructor's summary
NewSummary(r) ==
    [ scraped_at |-> r, total_discovered |-> 0, successfully_scraped |-> 0,
      failed_urls |-> 0, failed_url_list |-> << >>, scraped_urls |-> << >> ]

\* the report file: no export directory yet, no file, an unparsable file, a JSON
\* object with scraped_urls and no scraping_info, or a report
NoDir      == [state |-> "nodir",   rep |-> NewSummary(0)]
Absent     == [state |-> "absent",  rep |-> NewSummary(0)]
Partial    == [state |-> "partial", rep |-> NewSummary(0)]
Corrupt    == [state |-> "corrupt", rep |-> NewSummary(0)]
NoInfo(s)  == [state |-> "noinfo", rep |-> s]
Stored(s)  == [state |-> "ok", rep |-> s]

NewHist ==
    [ enq |-> << >>, deq |-> << >>, net |-> {}, fatal |-> "none",
      wfail |-> FALSE, sigint |-> FALSE, opt |-> "none", had |-> {}, skips |-> {},
      atsig |-> << >>,
      prev |-> [launched |-> FALSE, completed |-> FALSE, resumed |-> FALSE,
                mode |-> "full_run", disk |-> NoDir, files |-> {}] ]

NoItem == [url |-> Seed, depth |-> 0]

recordSuccess_fullRunOnly(s, u) ==
    IF cfg.run_mode = "full_run"
    THEN [s EXCEPT !.successfully_scraped = @ + 1, !.scraped_urls = Append(@, u)]
    ELSE s

recordSuccess(s, u) ==
    [s EXCEPT !.successfully_scraped = @ + 1, !.scraped_urls = Append(@, u)]

recordResumed_counting(s, u) ==
    [s EXCEPT !.successfully_scraped = @ + 1, !.scraped_urls = Append(@, u)]

recordResumed(s, u) == [s EXCEPT !.scraped_urls = Append(@, u)]

recordFailure(s, u) ==
    [s EXCEPT !.failed_urls = @ + 1, !.failed_url_list = Append(@, u)]

isFileTypeAllowed(extension) ==
    IF "all" \in cfg.file_types THEN TRUE
    ELSE IF extension \in {"html", "htm"} THEN "web" \in cfg.file_types
    ELSE extension \in cfg.file_types

isWebPage(ext) == ext = "" \/ ext \in {"html", "htm", "php", "aspx"}

shouldCrawl_rootDomain(url, vis) ==
    IF url \in vis THEN FALSE
    ELSE IF \E p \in cfg.blocked_paths : includes(url, p) THEN FALSE
    ELSE IF hostname(url) \in cfg.blocked_hosts THEN FALSE
    ELSE getRootDomain(url) = getRootDomain(cfg.start_url)

shouldCrawl_noVisited(url, vis) ==
    IF \E p \in cfg.blocked_paths : includes(url, p) THEN FALSE
    ELSE IF hostname(url) \in cfg.blocked_hosts THEN FALSE
    ELSE hostname(url) = hostname(cfg.start_url)

shouldCrawl_noBlocked(url, vis) ==
    IF url \in vis THEN FALSE
    ELSE hostname(url) = hostname(cfg.start_url)

shouldCrawl(url, vis) ==
    IF url \in vis THEN FALSE
    ELSE IF \E p \in cfg.blocked_paths : includes(url, p) THEN FALSE
    ELSE IF hostname(url) \in cfg.blocked_hosts THEN FALSE
    ELSE IF hostname(url) = hostname(cfg.start_url) THEN TRUE
    ELSE IF getRootDomain(url) \in cfg.allowed_external_domains THEN FALSE
    ELSE FALSE

depthAllows_inclusive(depth) == depth <= cfg.max_depth

\* if (depth < this.config.max_depth)
depthAllows(depth) == depth < cfg.max_depth

RECURSIVE linkLoop(_, _, _)

linkLoop_countAll(links, depth, st) ==
    IF links = << >> THEN st
    ELSE LET cleanLink == splitHash(Head(links))
             item      == [url |-> cleanLink, depth |-> depth + 1]
         IN linkLoop(Tail(links), depth,
                IF shouldCrawl(cleanLink, st.visited)
                THEN [ visited |-> st.visited \cup {cleanLink},
                       queue   |-> Append(st.queue, item),
                       td      |-> st.td + 1,
                       enq     |-> Append(st.enq, item) ]
                ELSE [st EXCEPT !.td = @ + 1])

\* for (const link of links) { ... } : st = [visited, queue, td, enq]
linkLoop(links, depth, st) ==
    IF links = << >> THEN st
    ELSE LET cleanLink == splitHash(Head(links))
             item      == [url |-> cleanLink, depth |-> depth + 1]
         IN linkLoop(Tail(links), depth,
                IF shouldCrawl(cleanLink, st.visited)
                THEN [ visited |-> st.visited \cup {cleanLink},
                       queue   |-> Append(st.queue, item),
                       td      |-> st.td + 1,
                       enq     |-> Append(st.enq, item) ]
                ELSE st)

htmlName(u) == sanitizeFilename(u) \o <<".", "html">>
pdfName(u)  == sanitizeFilename(u) \o <<".", "pdf">>
extName(u, ext) == sanitizeFilename(u) \o <<".", ext>>

\* fs.pathExists(path.join(exportDir, name))
pathExists(name) == \E f \in files : f.name = name

\* fs.outputFile: creates or replaces the file
outputFile(fs, name, src) ==
    {f \in fs : f.name # name} \cup {[name |-> name, src |-> src, by |-> run]}

contentOf(name) == (CHOOSE f \in files : f.name = name).src


\* ---------------------------------------------------------- report writes
\* what a finished write leaves on disk; overlapping writes of one file may mix
WriteResults(o) == IF clash THEN {Stored(wsnap[o]), Corrupt} ELSE {Stored(wsnap[o])}

\* updateReport(): fs.outputJson(reportPath, summary) called by owner o with summary s
updateReport(o, s) ==
    /\ inflight' = inflight \cup {o}
    /\ wsnap' = [wsnap EXCEPT ![o] = s]
    /\ clash' = (clash \/ inflight \ {o} # {})

\* owner o's write settles: the file is replaced (ok) or the write fails
settle(o, ok) ==
    /\ \E d \in (IF ok THEN WriteResults(o) ELSE {disk}) : disk' = d

\* owner o's awaited write is over and o starts no other
finished(o) ==
    /\ inflight' = inflight \ {o}
    /\ wsnap' = wsnap
    /\ clash' = (clash /\ inflight \ {o} # {})

\* ------------------------------------------------------- injected errors
\* a call that does not need the browser fails (fs write, page.close)
Fault(ok) ==
    /\ ok \/ events < MaxEvents
    /\ events' = IF ok THEN events ELSE events + 1

\* a call on the browser fails; once the browser is closed it always does
RendererFault(ok) ==
    /\ IF ok THEN browserOpen ELSE (~browserOpen \/ events < MaxEvents)
    /\ events' = IF ok \/ ~browserOpen THEN events ELSE events + 1

Running == exit = "running"

\* main(): catch (error) { console.error('Fatal error:', error); process.exit(1) }
Fatal(cause, h) ==
    /\ pc' = "fatal"
    /\ exit' = "fatal"
    /\ hist' = [h EXCEPT !.fatal = cause]

\* the history, with the outcome of a report write noted
noted(ok) == [hist EXCEPT !.wfail = @ \/ ~ok]

\* ------------------------------------------------------------------- Init
Init ==
    /\ cfg \in Configs
    /\ run = 1
    /\ exit = "running"
    /\ pc = "main"
    /\ cur = NoItem
    /\ isResumed = FALSE
    /\ throwing = FALSE
    /\ dom = Seed
    /\ visited = {}
    /\ queue = << >>
    /\ summary = NewSummary(1)
    /\ previousScraped = {}
    /\ browserOpen = FALSE
    /\ handler = FALSE
    /\ sigpc = "none"
    /\ disk = NoDir
    /\ files = {}
    /\ inflight = {}
    /\ wsnap = [o \in {"main", "sig"} |-> NewSummary(0)]
    /\ clash = FALSE
    /\ events = 0
    /\ hist = NewHist

\* -------------------------------------------------------------------- main
\* main(): the --resume option and new Crawler(config).  opt is "none" (no --resume),
\* "auto" (--resume: the most recent directory under Export/) or "path"
\* (--resume <path>, the path of the run's directory).  A fresh run gets a new
\* timestamped directory; run_mode is chosen anew only for a fresh run.
main_launch(opt, m) ==
    /\ Running /\ pc = "main"
    /\ m = cfg.run_mode \/ opt = "none"
    /\ LET exists == disk.state # "nodir"
           resume == opt # "none" /\ exists
           dir    == IF resume THEN files ELSE {}
       IN IF opt = "path" /\ ~exists
          THEN /\ Fatal("resume_path", [hist EXCEPT !.opt = opt])
               /\ UNCHANGED << cfg, disk, files >>
          ELSE /\ cfg' = [cfg EXCEPT !.resume_from = resume, !.run_mode = m]
               /\ disk' = IF resume THEN disk ELSE NoDir
               /\ files' = dir
               /\ hist' = [hist EXCEPT !.opt = opt, !.had = dir]
               /\ pc' = "init"
               /\ exit' = exit
    /\ UNCHANGED << run, cur, isResumed, throwing, dom, visited, queue, summary,
                    previousScraped, browserOpen, handler, sigpc, inflight, wsnap, clash,
                    events >>

\* ------------------------------------------------------------ Crawler.init
\* ensureDir, the resume load, and the call of updateReport().  readJson throws on
\* an unparsable file; on a file with no scraping_info the assignment of the first
\* counter throws after scraped_urls was copied; the catch block only logs
Crawler_init ==
    /\ Running /\ pc = "init"
    /\ LET found  == cfg.resume_from /\ disk.state \notin {"nodir", "absent"}
           parsed == found /\ disk.state \in {"ok", "noinfo"}
           loaded == found /\ disk.state = "ok"
           s == IF loaded
                THEN [summary EXCEPT
                        !.total_discovered = disk.rep.total_discovered,
                        !.successfully_scraped = disk.rep.successfully_scraped,
                        !.failed_urls = disk.rep.failed_urls]
                ELSE summary
       IN /\ previousScraped' = IF parsed THEN Range(disk.rep.scraped_urls) ELSE previousScraped
          /\ summary' = s
          /\ updateReport("main", s)
    /\ disk' = IF disk.state = "nodir" THEN Absent ELSE disk
    /\ pc' = "init_write"
    /\ UNCHANGED << cfg, run, exit, cur, isResumed, throwing, dom, visited, queue,
                    browserOpen, handler, sigpc, files, events, hist >>

\* the initial write settles; launch, newContext, process.on('SIGINT')
Crawler_init_written(ok) ==
    /\ Running /\ pc = "init_write"
    /\ Fault(ok)
    /\ settle("main", ok)
    /\ finished("main")
    /\ IF ok
       THEN /\ browserOpen' = TRUE
            /\ handler' = TRUE
            /\ pc' = "start"
            /\ hist' = hist
            /\ exit' = exit
       ELSE /\ Fatal("init_write", noted(ok))
            /\ UNCHANGED << browserOpen, handler >>
    /\ UNCHANGED << cfg, run, cur, isResumed, throwing, dom, visited, queue, summary,
                    previousScraped, sigpc, files >>

\* ----------------------------------------------------------- Crawler.start
start_seed ==
    /\ Running /\ pc = "start"
    /\ queue' = Append(queue, [url |-> cfg.start_url, depth |-> 0])
    /\ visited' = visited \cup {cfg.start_url}
    /\ summary' = [summary EXCEPT !.total_discovered = @ + 1]
    /\ pc' = "loop"
    /\ UNCHANGED << cfg, run, exit, cur, isResumed, throwing, dom, previousScraped,
                    browserOpen, handler, sigpc, disk, files, inflight, wsnap, clash,
                    events, hist >>

start_dequeue_pop ==
    /\ Running /\ pc = "loop"
    /\ queue # << >>
    /\ cur' = queue[Len(queue)]
    /\ queue' = SubSeq(queue, 1, Len(queue) - 1)
    /\ hist' = [hist EXCEPT !.deq = Append(@, queue[Len(queue)])]
    /\ pc' = "newPage"
    /\ UNCHANGED << cfg, run, exit, isResumed, throwing, dom, visited, summary,
                    previousScraped, browserOpen, handler, sigpc, disk, files, inflight,
                    wsnap, clash, events >>

\* while (this.queue.length > 0) { const current = this.queue.shift()!; processUrl(current)
start_dequeue ==
    /\ Running /\ pc = "loop"
    /\ queue # << >>
    /\ cur' = Head(queue)
    /\ queue' = Tail(queue)
    /\ hist' = [hist EXCEPT !.deq = Append(@, Head(queue))]
    /\ pc' = "newPage"
    /\ UNCHANGED << cfg, run, exit, isResumed, throwing, dom, visited, summary,
                    previousScraped, browserOpen, handler, sigpc, disk, files, inflight,
                    wsnap, clash, events >>

\* the queue is empty: cleanup() is called and awaits browser.close()
start_finish ==
    /\ Running /\ pc = "loop"
    /\ queue = << >>
    /\ pc' = "cleanup_close"
    /\ UNCHANGED << cfg, run, exit, cur, isResumed, throwing, dom, visited, queue, summary,
                    previousScraped, browserOpen, handler, sigpc, disk, files, inflight,
                    wsnap, clash, events, hist >>

\* cleanup(): the browser is closed; updateReport() is called
cleanup_close ==
    /\ Running /\ pc = "cleanup_close"
    /\ browserOpen' = FALSE
    /\ updateReport("main", summary)
    /\ pc' = "cleanup_write"
    /\ UNCHANGED << cfg, run, exit, cur, isResumed, throwing, dom, visited, queue, summary,
                    previousScraped, handler, sigpc, disk, files, events, hist >>

\* the final write settles; start() returns or rejects
cleanup_written(ok) ==
    /\ Running /\ pc = "cleanup_write"
    /\ Fault(ok)
    /\ settle("main", ok)
    /\ finished("main")
    /\ IF ok
       THEN /\ pc' = "done"
            /\ UNCHANGED << exit, hist >>
       ELSE Fatal("final_write", noted(ok))
    /\ UNCHANGED << cfg, run, cur, isResumed, throwing, dom, visited, queue, summary,
                    previousScraped, browserOpen, handler, sigpc, files >>


\* ------------------------------------------------------ Crawler.processUrl
\* catch (error) { failed_urls++; failed_url_list.push(url); await this.updateReport() }
catch ==
    /\ summary' = recordFailure(summary, cur.url)
    /\ updateReport("main", recordFailure(summary, cur.url))
    /\ pc' = "catch_write"

\* const page = await this.context.newPage()   (before the try)
processUrl_newPage(ok) ==
    /\ Running /\ pc = "newPage"
    /\ RendererFault(ok)
    /\ IF ok
       THEN /\ pc' = "try"
            /\ UNCHANGED << exit, hist >>
       ELSE Fatal("newPage", hist)
    /\ isResumed' = FALSE
    /\ throwing' = FALSE
    /\ UNCHANGED << cfg, run, cur, dom, visited, queue, summary, previousScraped,
                    browserOpen, handler, sigpc, disk, files, inflight, wsnap, clash >>

\* the classification at the head of the try block
processUrl_classify ==
    /\ Running /\ pc = "try"
    /\ LET urlExtension == getFileExtension(cur.url) IN
       pc' = IF urlExtension # "" /\ ~isWebPage(urlExtension) /\ isFileTypeAllowed(urlExtension)
             THEN "dl_check"
             ELSE IF isWebPage(urlExtension) /\ "web" \notin cfg.file_types
                     /\ "all" \notin cfg.file_types
             THEN "finally"
             ELSE "page_check"
    /\ UNCHANGED << cfg, run, exit, cur, isResumed, throwing, dom, visited, queue, summary,
                    previousScraped, browserOpen, handler, sigpc, disk, files, inflight,
                    wsnap, clash, events, hist >>

\* where the try block goes after the summary is updated
afterRecord == IF depthAllows(cur.depth) THEN "links" ELSE "finally"

\* resume: the page's file exists; it is read and loaded with page.setContent
processUrl_resume(ok) ==
    /\ Running /\ pc = "page_check"
    /\ cfg.resume_from /\ pathExists(htmlName(cur.url))
    /\ RendererFault(ok)
    /\ IF ok
       THEN /\ isResumed' = TRUE
            /\ dom' = contentOf(htmlName(cur.url))
            /\ IF cur.url \notin previousScraped
               THEN /\ summary' = recordResumed(summary, cur.url)
                    /\ updateReport("main", recordResumed(summary, cur.url))
                    /\ pc' = "rec_write"
               ELSE /\ pc' = afterRecord
                    /\ UNCHANGED << summary, inflight, wsnap, clash >>
       ELSE /\ catch
            /\ UNCHANGED << isResumed, dom >>
    /\ hist' = [hist EXCEPT !.skips = @ \cup {cur.url}]
    /\ UNCHANGED << cfg, run, exit, cur, throwing, visited, queue, previousScraped,
                    browserOpen, handler, sigpc, disk, files >>

saveHtml_skipped(u) == files

\* if (this.config.run_mode === 'full_run') saveFile(exportDir, filename, content)
saveHtml(u) == IF cfg.run_mode = "full_run" THEN outputFile(files, htmlName(u), u) ELSE files

\* page.goto, the content-type check, the WAF and cookie steps, Save HTML, Update Summary
processUrl_goto(ok) ==
    /\ Running /\ pc = "page_check"
    /\ ~(cfg.resume_from /\ pathExists(htmlName(cur.url)))
    /\ IF cur.url \in Dead THEN ~ok /\ UNCHANGED << events >> ELSE RendererFault(ok)
    /\ IF ok
       THEN /\ dom' = cur.url
            /\ summary' = recordSuccess(summary, cur.url)
            /\ updateReport("main", recordSuccess(summary, cur.url))
            /\ IF cur.url \in ServedAsPdf /\ isFileTypeAllowed("pdf")
               THEN /\ files' = outputFile(files, pdfName(cur.url), cur.url)
                    /\ pc' = "pdf_write"
               ELSE /\ files' = saveHtml(cur.url)
                    /\ pc' = "rec_write"
            /\ hist' = [hist EXCEPT !.net = @ \cup {cur.url}]
       ELSE /\ catch
            /\ hist' = [hist EXCEPT !.net = @ \cup {cur.url}]
            /\ UNCHANGED << dom, files >>
    /\ UNCHANGED << cfg, run, exit, cur, isResumed, throwing, visited, queue,
                    previousScraped, browserOpen, handler, sigpc, disk >>

\* the write of the content-type PDF branch settles; then await page.close()
processUrl_pdf_written(ok) ==
    /\ Running /\ pc = "pdf_write"
    /\ Fault(ok)
    /\ settle("main", ok)
    /\ IF ok
       THEN /\ finished("main")
            /\ pc' = "pdf_close"
            /\ summary' = summary
       ELSE catch
    /\ hist' = noted(ok)
    /\ UNCHANGED << cfg, run, exit, cur, isResumed, throwing, dom, visited, queue,
                    previousScraped, browserOpen, handler, sigpc, files >>

\* await page.close() inside the try; return
processUrl_pdf_close(ok) ==
    /\ Running /\ pc = "pdf_close"
    /\ Fault(ok)
    /\ IF ok
       THEN /\ pc' = "finally"
            /\ UNCHANGED << summary, inflight, wsnap, clash >>
       ELSE catch
    /\ UNCHANGED << cfg, run, exit, cur, isResumed, throwing, dom, visited, queue,
                    previousScraped, browserOpen, handler, sigpc, disk, files, hist >>

\* the write of Update Summary settles
processUrl_recorded(ok) ==
    /\ Running /\ pc = "rec_write"
    /\ Fault(ok)
    /\ settle("main", ok)
    /\ IF ok
       THEN /\ finished("main")
            /\ previousScraped' = IF isResumed THEN previousScraped \cup {cur.url}
                                  ELSE previousScraped
            /\ pc' = afterRecord
            /\ summary' = summary
       ELSE /\ catch
            /\ previousScraped' = previousScraped
    /\ hist' = noted(ok)
    /\ UNCHANGED << cfg, run, exit, cur, isResumed, throwing, dom, visited, queue,
                    browserOpen, handler, sigpc, files >>

\* links = await page.evaluate(...); for (const link of links) ...
processUrl_links(ok) ==
    /\ Running /\ pc = "links"
    /\ RendererFault(ok)
    /\ IF ok
       THEN LET st == linkLoop(Anchors(dom), cur.depth,
                         [visited |-> visited, queue |-> queue,
                          td |-> summary.total_discovered, enq |-> hist.enq])
            IN /\ visited' = st.visited
               /\ queue' = st.queue
               /\ summary' = [summary EXCEPT !.total_discovered = st.td]
               /\ hist' = [hist EXCEPT !.enq = st.enq]
               /\ pc' = "finally"
               /\ UNCHANGED << inflight, wsnap, clash >>
       ELSE /\ catch
            /\ UNCHANGED << visited, queue, hist >>
    /\ UNCHANGED << cfg, run, exit, cur, isResumed, throwing, dom, previousScraped,
                    browserOpen, handler, sigpc, disk, files >>

\* the write in the catch block settles; its failure leaves the catch block
processUrl_catch_written(ok) ==
    /\ Running /\ pc = "catch_write"
    /\ Fault(ok)
    /\ settle("main", ok)
    /\ finished("main")
    /\ throwing' = ~ok
    /\ pc' = "finally"
    /\ hist' = noted(ok)
    /\ UNCHANGED << cfg, run, exit, cur, isResumed, dom, visited, queue, summary,
                    previousScraped, browserOpen, handler, sigpc, files >>

\* finally { await page.close() }; then processUrl returns or rejects into main's catch
processUrl_finally(ok) ==
    /\ Running /\ pc = "finally"
    /\ Fault(ok)
    /\ IF ok /\ ~throwing
       THEN /\ pc' = "loop"
            /\ UNCHANGED << exit, hist >>
       ELSE Fatal(IF throwing THEN "item_write" ELSE "page_close", hist)
    /\ throwing' = FALSE
    /\ UNCHANGED << cfg, run, cur, isResumed, dom, visited, queue, summary,
                    previousScraped, browserOpen, handler, sigpc, disk, files, inflight,
                    wsnap, clash >>


\* ---------------------------------------------- Crawler.downloadBinaryFile
\* downloadBinaryFile's catch block
dlCatch ==
    /\ summary' = recordFailure(summary, cur.url)
    /\ updateReport("main", recordFailure(summary, cur.url))
    /\ pc' = "dl_catch_write"

binName(u) == extName(u, getFileExtension(u))

\* resume: the file exists, the download is skipped
downloadBinaryFile_resume ==
    /\ Running /\ pc = "dl_check"
    /\ cfg.resume_from /\ pathExists(binName(cur.url))
    /\ IF cur.url \notin previousScraped
       THEN /\ summary' = recordResumed(summary, cur.url)
            /\ previousScraped' = previousScraped \cup {cur.url}
            /\ updateReport("main", recordResumed(summary, cur.url))
            /\ pc' = "dl_write"
       ELSE /\ pc' = "finally"
            /\ UNCHANGED << summary, previousScraped, inflight, wsnap, clash >>
    /\ hist' = [hist EXCEPT !.skips = @ \cup {cur.url}]
    /\ UNCHANGED << cfg, run, exit, cur, isResumed, throwing, dom, visited, queue,
                    browserOpen, handler, sigpc, disk, files, events >>

\* context.request.get(url): a 2xx response is saved and recorded, another status is
\* recorded as a failure, an error goes to the catch block
downloadBinaryFile_get(outcome) ==
    /\ Running /\ pc = "dl_check"
    /\ ~(cfg.resume_from /\ pathExists(binName(cur.url)))
    /\ IF cur.url \in Dead THEN outcome = "throw" /\ UNCHANGED << events >>
       ELSE RendererFault(outcome = "ok")
    /\ outcome = "status" => browserOpen /\ events < MaxEvents
    /\ IF outcome = "ok"
       THEN /\ files' = outputFile(files, binName(cur.url), cur.url)
            /\ summary' = recordSuccess(summary, cur.url)
            /\ updateReport("main", recordSuccess(summary, cur.url))
            /\ pc' = "dl_write"
       ELSE IF outcome = "status"
       THEN /\ summary' = recordFailure(summary, cur.url)
            /\ updateReport("main", recordFailure(summary, cur.url))
            /\ pc' = "dl_write"
            /\ files' = files
       ELSE /\ dlCatch
            /\ files' = files
    /\ hist' = [hist EXCEPT !.net = @ \cup {cur.url}]
    /\ UNCHANGED << cfg, run, exit, cur, isResumed, throwing, dom, visited, queue,
                    previousScraped, browserOpen, handler, sigpc, disk >>

\* a write of the try block of downloadBinaryFile settles
downloadBinaryFile_written(ok) ==
    /\ Running /\ pc = "dl_write"
    /\ Fault(ok)
    /\ settle("main", ok)
    /\ IF ok
       THEN /\ finished("main")
            /\ pc' = "finally"
            /\ summary' = summary
       ELSE dlCatch
    /\ hist' = noted(ok)
    /\ UNCHANGED << cfg, run, exit, cur, isResumed, throwing, dom, visited, queue,
                    previousScraped, browserOpen, handler, sigpc, files >>

\* the write of downloadBinaryFile's catch block settles; its failure is thrown into
\* processUrl's try block
downloadBinaryFile_catch_written(ok) ==
    /\ Running /\ pc = "dl_catch_write"
    /\ Fault(ok)
    /\ settle("main", ok)
    /\ IF ok
       THEN /\ finished("main")
            /\ pc' = "finally"
            /\ summary' = summary
       ELSE catch
    /\ hist' = noted(ok)
    /\ UNCHANGED << cfg, run, exit, cur, isResumed, throwing, dom, visited, queue,
                    previousScraped, browserOpen, handler, sigpc, files >>

\* ----------------------------------------------------------- SIGINT handler
AwaitPcs == { "newPage", "page_check", "pdf_write", "pdf_close", "rec_write", "links",
              "catch_write", "finally", "dl_check", "dl_write", "dl_catch_write",
              "cleanup_close", "cleanup_write" }

\* process.on('SIGINT', ...): the handler calls cleanup(), which calls browser.close()
\* and awaits it; from the call on, the calls of the main flow on the browser fail
sigint ==
    /\ Running /\ handler /\ sigpc = "none"
    /\ pc \in AwaitPcs
    /\ events < MaxEvents
    /\ events' = events + 1
    /\ sigpc' = "closing"
    /\ browserOpen' = FALSE
    /\ hist' = [hist EXCEPT !.sigint = TRUE, !.atsig = summary.failed_url_list]
    /\ UNCHANGED << cfg, run, exit, pc, cur, isResumed, throwing, dom, visited, queue,
                    summary, previousScraped, handler, disk, files, inflight,
                    wsnap, clash >>

\* cleanup() in the handler: browser.close() has resolved; updateReport() is called
sigint_closed ==
    /\ Running /\ sigpc = "closing"
    /\ updateReport("sig", summary)
    /\ sigpc' = "writing"
    /\ UNCHANGED << cfg, run, exit, pc, cur, isResumed, throwing, dom, visited, queue,
                    summary, previousScraped, browserOpen, handler, disk, files, events,
                    hist >>

\* the handler's write settles; process.exit() (or the rejection ends the process):
\* the main flow stops where it is and the memory of the process is gone
sigint_exit(ok) ==
    /\ Running /\ sigpc = "writing"
    /\ Fault(ok)
    /\ settle("sig", ok)
    /\ finished("sig")
    /\ sigpc' = "exited"
    /\ exit' = "sigint"
    /\ hist' = noted(ok)
    /\ pc' = "killed"
    /\ cur' = NoItem
    /\ isResumed' = FALSE
    /\ throwing' = FALSE
    /\ dom' = Seed
    /\ visited' = {}
    /\ queue' = << >>
    /\ previousScraped' = {}
    /\ UNCHANGED << cfg, run, summary, browserOpen, handler, files >>

\* ------------------------------------------------------------ next launch
\* the process is over: it exited, or start() returned with no handler pending
Terminated == exit # "running" \/ (pc = "done" /\ sigpc \in {"none", "exited"})

\* what a write cut off by the end of the process leaves of the file
CutOff == {disk, Partial} \cup {Stored(wsnap[o]) : o \in inflight}

\* a report of the directory as another tool may leave it between two launches
Replaced(d) == IF d.state = "ok" /\ events < MaxEvents THEN {NoInfo(d.rep)} ELSE {}

\* the program is started again with the same configuration file
relaunch ==
    /\ Terminated /\ run < MaxRuns
    /\ run' = run + 1
    /\ cfg' = cfg
    /\ exit' = "running"
    /\ pc' = "main"
    /\ cur' = NoItem
    /\ isResumed' = FALSE
    /\ throwing' = FALSE
    /\ dom' = Seed
    /\ visited' = {}
    /\ queue' = << >>
    /\ summary' = NewSummary(run + 1)
    /\ previousScraped' = {}
    /\ browserOpen' = FALSE
    /\ handler' = FALSE
    /\ sigpc' = "none"
    /\ \E c \in (IF inflight = {} THEN {disk} ELSE CutOff) :
       \E d \in {c} \cup Replaced(c) :
         /\ disk' = d
         /\ events' = IF d = c THEN events ELSE events + 1
         /\ hist' = [NewHist EXCEPT !.prev =
                        [launched |-> TRUE,
                         completed |-> (pc = "done" /\ exit = "running" /\ inflight = {}),
                         resumed |-> cfg.resume_from, mode |-> cfg.run_mode,
                         disk |-> d, files |-> files]]
    /\ inflight' = {}
    /\ wsnap' = [o \in {"main", "sig"} |-> NewSummary(0)]
    /\ clash' = FALSE
    /\ UNCHANGED << files >>

Next ==
    \/ \E opt \in {"none", "auto", "path"}, m \in {"dry_run", "full_run"} : main_launch(opt, m)
    \/ Crawler_init
    \/ \E ok \in BOOLEAN : Crawler_init_written(ok)
    \/ start_seed
    \/ start_dequeue
    \/ start_finish
    \/ cleanup_close
    \/ \E ok \in BOOLEAN : cleanup_written(ok)
    \/ \E ok \in BOOLEAN : processUrl_newPage(ok)
    \/ processUrl_classify
    \/ \E ok \in BOOLEAN : processUrl_resume(ok)
    \/ \E ok \in BOOLEAN : processUrl_goto(ok)
    \/ \E ok \in BOOLEAN : processUrl_pdf_written(ok)
    \/ \E ok \in BOOLEAN : processUrl_pdf_close(ok)
    \/ \E ok \in BOOLEAN : processUrl_recorded(ok)
    \/ \E ok \in BOOLEAN : processUrl_links(ok)
    \/ \E ok \in BOOLEAN : processUrl_catch_written(ok)
    \/ \E ok \in BOOLEAN : processUrl_finally(ok)
    \/ downloadBinaryFile_resume
    \/ \E outcome \in {"ok", "status", "throw"} : downloadBinaryFile_get(outcome)
    \/ \E ok \in BOOLEAN : downloadBinaryFile_written(ok)
    \/ \E ok \in BOOLEAN : downloadBinaryFile_catch_written(ok)
    \/ sigint
    \/ sigint_closed
    \/ \E ok \in BOOLEAN : sigint_exit(ok)
    \/ relaunch

Spec == Init /\ [][Next]_vars


\* ================================================================ claims
Count(s, u) == Cardinality({i \in 1..Len(s) : s[i] = u})

CountersMatch(r) ==
    /\ r.successfully_scraped = Len(r.scraped_urls)
    /\ r.failed_urls = Len(r.failed_url_list)

\* this launch and the ones before it saw no environment event
Undisturbed == events = 0 /\ ~hist.wfail /\ ~hist.sigint

\* the counter total_discovered the launch started from
LoadedDiscovered ==
    IF cfg.resume_from /\ hist.prev.launched /\ hist.prev.disk.state = "ok"
    THEN hist.prev.disk.rep.total_discovered ELSE 0

\* C1: whenever the report file holds a completed write, its counters equal the
\* lengths of its lists: successfully_scraped = length(scraped_urls) and
\* failed_urls = length(failed_url_list), in fresh and in resumed launches.
C1_CountersEqualLengths == disk.state = "ok" => CountersMatch(disk.rep)

\* C1, first launch only: the same statement where no report was loaded.
C1_FreshCountersEqualLengths == (disk.state = "ok" /\ run = 1) => CountersMatch(disk.rep)

\* C2: no URL occurs more than once in scraped_urls and failed_url_list taken
\* together, in every reachable state.
C2_AtMostOnce ==
    \A u \in Range(summary.scraped_urls) \cup Range(summary.failed_url_list) :
        Count(summary.scraped_urls, u) + Count(summary.failed_url_list, u) <= 1

\* C3: a full_run crawl that ran to completion, followed by a resumed crawl of the
\* same directory that also runs to completion, ends with the same scraped_urls
\* list, the same three counters and the same content files.
C3_IdempotentResume ==
    ( /\ run = 2 /\ cfg.resume_from /\ pc = "done" /\ inflight = {}
      /\ hist.prev.completed /\ cfg.run_mode = "full_run" /\ Undisturbed
      /\ disk.state = "ok" /\ hist.prev.disk.state = "ok" )
    => /\ disk.rep.scraped_urls = hist.prev.disk.rep.scraped_urls
       /\ disk.rep.total_discovered = hist.prev.disk.rep.total_discovered
       /\ disk.rep.successfully_scraped = hist.prev.disk.rep.successfully_scraped
       /\ disk.rep.failed_urls = hist.prev.disk.rep.failed_urls
       /\ files = hist.prev.files

\* C4: with run_mode = dry_run no content file is ever written to the output
\* directory, on any path.
C4_DryRunWritesNoContent == cfg.run_mode = "dry_run" => files = {}

\* C5: at every suspension point of the crawl loop at which the main flow is not
\* itself waiting for a report write, and with no write having failed, the report on
\* disk equals the summary in memory (discoveries, successes and failures alike).
C5_DiskEqualsMemory ==
    ( /\ Running /\ handler /\ pc \in AwaitPcs \cup {"loop"}
      /\ inflight = {} /\ Undisturbed )
    => disk = Stored(summary)

\* C6: two writes of the report file are never in progress at once, and the process
\* never ends while a write of the report file is in progress.
C6_NoOverlappingWrite ==
    /\ Cardinality(inflight) <= 1
    /\ exit # "running" => inflight = {}

\* C7: a failed report write while recording the outcome of an item never ends the
\* process with a fatal error.
C7_WriteFailureNotFatal == hist.fatal # "item_write"

\* C8: every item in the queue and every item dequeued has depth <= max_depth, and
\* with max_depth = 0 only the seed is dequeued and no link is enqueued.
C8_DepthBound ==
    /\ \A i \in 1..Len(queue) : queue[i].depth <= cfg.max_depth
    /\ \A i \in 1..Len(hist.deq) : hist.deq[i].depth <= cfg.max_depth
    /\ \A i \in 1..Len(hist.enq) : hist.enq[i].depth <= cfg.max_depth
    /\ cfg.max_depth = 0 =>
          /\ hist.enq = << >>
          /\ \A i \in 1..Len(hist.deq) : hist.deq[i] = [url |-> cfg.start_url, depth |-> 0]
          /\ Len(hist.deq) <= 1

\* a page at depth max_depth >= 1 that has anchors went through link extraction's
\* depth test and on to the finally block after being recorded
C8_Witness ==
    /\ cfg.max_depth >= 1 /\ cur.depth = cfg.max_depth
    /\ pc = "finally" /\ ~throwing
    /\ Anchors(cur.url) # << >>
    /\ Count(summary.scraped_urls, cur.url) = 1
    /\ Count(summary.failed_url_list, cur.url) = 0

Blocked(u) ==
    \/ \E p \in cfg.blocked_paths : includes(u, p)
    \/ hostname(u) \in cfg.blocked_hosts

\* C10: no URL enqueued by link discovery contains a blocked_paths entry or has a
\* blocked_hosts hostname; a rejected link is not marked visited and does not count
\* in total_discovered, which grows by exactly one per enqueued link.
C10_BlockedNeverEnqueued ==
    /\ \A i \in 1..Len(hist.enq) : ~Blocked(hist.enq[i].url)
    /\ \A u \in visited : u = cfg.start_url \/ ~Blocked(u)
    /\ visited # {} =>
          /\ summary.total_discovered = LoadedDiscovered + 1 + Len(hist.enq)
          /\ visited = {cfg.start_url} \cup {hist.enq[i].url : i \in 1..Len(hist.enq)}

\* the seed page, one of whose anchors is on a blocked path, went through link
\* extraction, which enqueued other links and left the blocked one out
C10_Witness ==
    /\ cur.url = Seed /\ pc = "finally" /\ hist.enq # << >>
    /\ \E i \in 1..Len(Anchors(Seed)) : Blocked(splitHash(Anchors(Seed)[i]))
    /\ UAdmin \notin visited

\* the URL's extension names a file type the configuration downloads
FileEligible(u) ==
    LET e == getFileExtension(u) IN e # "" /\ ~isWebPage(e) /\ isFileTypeAllowed(e)

\* the URL looks like a page and the configuration takes pages
PageEligible(u) ==
    isWebPage(getFileExtension(u)) /\ ("web" \in cfg.file_types \/ "all" \in cfg.file_types)

Counters(s) == << s.total_discovered, s.successfully_scraped, s.failed_urls >>

\* C11: a dequeued URL that is neither an eligible file nor an eligible page is
\* skipped: no navigation and no fetch is issued for it, this launch writes no file
\* for it, and it is in neither scraped_urls nor failed_url_list.
C11_IneligibleSkipped ==
    \A i \in 1..Len(hist.deq) :
        LET u == hist.deq[i].url IN
        (~FileEligible(u) /\ ~PageEligible(u)) =>
            /\ u \notin hist.net
            /\ u \notin Range(summary.scraped_urls) \cup Range(summary.failed_url_list)
            /\ ~\E f \in files : f.src = u /\ f.by = run

\* C12: when the processing of a page-like URL whose response is a PDF has come to
\* its end with no error, and pdf is eligible (file_types has "pdf" or "all", with or
\* without "web"), the URL is recorded as a success once and its .pdf file is saved.
C12_ContentTypeOverride ==
    ( /\ pc = "finally" /\ ~throwing /\ Undisturbed
      /\ isWebPage(getFileExtension(cur.url))
      /\ cur.url \in ServedAsPdf /\ isFileTypeAllowed("pdf") )
    => /\ Count(summary.scraped_urls, cur.url) = 1
       /\ pathExists(pdfName(cur.url))

\* C13: a failure to open or to close the page of one item, with no interrupt
\* signal, never ends the process.
C13_ItemFailureNotFatal == ~hist.sigint => hist.fatal \notin {"newPage", "page_close"}

\* C14: two fresh runs of the same configuration over the same site, one in dry_run
\* and one in full_run, both run to completion with no error from the environment,
\* end with reports that have the same three counters, the same scraped_urls and the
\* same failed_url_list.
C14_DryRunSameReport ==
    ( /\ run = 2 /\ ~cfg.resume_from /\ pc = "done" /\ inflight = {}
      /\ hist.prev.completed /\ ~hist.prev.resumed /\ hist.prev.mode # cfg.run_mode
      /\ Undisturbed /\ disk.state = "ok" /\ hist.prev.disk.state = "ok" )
    => /\ Counters(disk.rep) = Counters(hist.prev.disk.rep)
       /\ disk.rep.scraped_urls = hist.prev.disk.rep.scraped_urls
       /\ disk.rep.failed_url_list = hist.prev.disk.rep.failed_url_list

\* a dry run has completed after a full run of the same configuration; both recorded
\* successes and a failure, and the dry run's directory holds no content file
C14_Witness ==
    /\ run = 2 /\ ~cfg.resume_from /\ pc = "done" /\ inflight = {}
    /\ hist.prev.completed /\ ~hist.prev.resumed /\ hist.prev.mode = "full_run"
    /\ cfg.run_mode = "dry_run"
    /\ Undisturbed /\ disk.state = "ok" /\ hist.prev.disk.state = "ok"
    /\ Len(disk.rep.scraped_urls) >= 2 /\ disk.rep.failed_urls >= 1
    /\ files = {} /\ hist.prev.files # {}

\* C15: in a resumed launch that finds a report, the report file is as it was found
\* until the launch has recorded an event: initialization does not rewrite it.
C15_LoadedReportUntouched ==
    ( /\ cfg.resume_from /\ hist.prev.disk.state = "ok"
      /\ pc \in {"init", "init_write", "start"} )
    => disk = hist.prev.disk

\* C16: in a resumed launch that finds a report it cannot parse or one that has no
\* scraping_info, initialization ends with an empty previously-scraped set and with
\* the three counters at 0.
C16_MalformedDiscarded ==
    ( /\ cfg.resume_from /\ hist.prev.disk.state \in {"partial", "corrupt", "noinfo"}
      /\ pc \in {"init_write", "start"} )
    => /\ previousScraped = {}
       /\ Counters(summary) = << 0, 0, 0 >>

\* the name of the file the crawl writes for a URL under the configuration
ArtifactName(u) ==
    IF FileEligible(u) THEN binName(u)
    ELSE IF u \in ServedAsPdf /\ isFileTypeAllowed("pdf") THEN pdfName(u)
    ELSE htmlName(u)

\* C17: two distinct URLs of one crawl (same hostname, different path or query
\* string) never get the same filename.
C17_FilenamesCollisionFree ==
    \A u, v \in visited : u # v => ArtifactName(u) # ArtifactName(v)

\* C18: no name of a content file in the output directory, and no filename generated
\* for a URL of the crawl, contains a path separator.
C18_FlatOutput ==
    /\ \A f \in files : "/" \notin Range(f.name)
    /\ \A u \in visited : "/" \notin Range(ArtifactName(u))

\* the file of a URL whose path has two segments was written
C18_Witness ==
    \E f \in files : f.src = UDoc /\ f.by = run /\ Len(pathname(f.src)) > 2
                     /\ "/" \in Range(stripLeading(pathname(f.src)))

\* C19: a resumed launch writes no content file under a name that was in the output
\* directory when the launch started.
C19_ExistingFilesUntouched ==
    cfg.resume_from =>
        \A f \in files : (\E g \in hist.had : g.name = f.name) => f.by # run

\* C20: a launch that asks for resume where there is no output directory, or no
\* report in it, does not exit: it starts with the counters at 0 and an empty
\* previously-scraped set, and treats no item as a resume-skip.
C20_ResumeFallsBack ==
    /\ hist.fatal # "resume_path"
    /\ (hist.opt # "none" /\ hist.prev.disk.state \in {"nodir", "absent"}) =>
          /\ hist.skips = {}
          /\ pc \in {"init_write", "start"} =>
                previousScraped = {} /\ Counters(summary) = << 0, 0, 0 >>

Urls(s) == [i \in 1..Len(s) |-> s[i].url]

NoRepeat(s) == \A i, j \in 1..Len(s) : s[i] = s[j] => i = j

\* C21: the queue never holds two items with the same URL, every queued URL is in
\* the visited set, no URL is dequeued twice in a run, and while the process runs the
\* visited set only grows.
C21_FrontierUnique ==
    /\ [](/\ NoRepeat(Urls(queue))
          /\ Range(Urls(queue)) \subseteq visited
          /\ NoRepeat(Urls(hist.deq))
          /\ Range(Urls(queue)) \cap Range(Urls(hist.deq)) = {})
    /\ [][(exit' = "running" /\ run' = run) => visited \subseteq visited']_vars

\* the seed page, two of whose anchors lead to the same URL, went through link
\* extraction: the URL is queued once, behind other links
C21_Witness ==
    /\ cur.url = Seed /\ pc = "finally"
    /\ Count(Urls(queue), UA) = 1 /\ Len(queue) >= 3
    /\ Count([i \in 1..Len(Anchors(Seed)) |-> splitHash(Anchors(Seed)[i])], UA) = 2

ResumeSkipped ==
    cur.url \notin hist.skips /\ cur.url \in hist'.skips /\ pc' # "catch_write"

C24_NoFetchWhenArtifactExists ==
    cfg.resume_from =>
        \A u \in hist.net : ~\E g \in hist.had : g.src = u /\ g.name = ArtifactName(u)

\* the failure branches a fetch can take: navigation throws, the raw fetch throws,
\* the raw fetch returns a status that is not 2xx
FetchFailed ==
    /\ cur.url \notin hist.net /\ cur.url \in hist'.net
    /\ summary'.scraped_urls = summary.scraped_urls

\* C25: a failed navigation or fetch increments failed_urls by 1, appends the URL to
\* failed_url_list and starts a flush, leaving the other counters, scraped_urls, the
\* queue and the visited set unchanged; over the processing of the item the URL is
\* never counted as failed more than once.
C25_FailureRecordedOnce ==
    /\ [][FetchFailed =>
            /\ summary' = recordFailure(summary, cur.url)
            /\ "main" \in inflight'
            /\ queue' = queue /\ visited' = visited]_vars
    /\ [](\A u \in hist.net : Count(summary.failed_url_list, u) <= 1)

\* C26: in a launch that is not resumed, in every state after seeding,
\* total_discovered is the number of items enqueued so far (the seed and the links
\* that passed shouldCrawl below max_depth), which is the size of the visited set.
C26_DiscoveredCountsEnqueued ==
    (~cfg.resume_from /\ visited # {}) =>
        /\ summary.total_discovered = 1 + Len(hist.enq)
        /\ summary.total_discovered = Cardinality(visited)

\* the seed page of a fresh launch went through the link loop, which enqueued some
\* of its anchors and rejected others
C26_Witness ==
    /\ ~cfg.resume_from /\ cur.url = Seed /\ pc = "finally"
    /\ Len(hist.enq) >= 2 /\ Len(hist.enq) < Len(Anchors(Seed))
    /\ summary.total_discovered = 1 + Len(hist.enq)

\* C27: with no interrupt, the crawl of a launch never ends before the queue is
\* empty: the process does not exit while processing items, and when start() returns
\* every enqueued item was dequeued, the browser is closed and the final flush is on
\* disk.
C27_RunsToCompletion ==
    ~hist.sigint =>
        /\ hist.fatal \notin {"newPage", "item_write", "page_close"}
        /\ pc = "done" =>
              /\ queue = << >>
              /\ hist.deq = << [url |-> cfg.start_url, depth |-> 0] >> \o hist.enq
              /\ ~browserOpen
              /\ disk = Stored(summary)

\* an item of the launch was skipped by the classification
SkippedIneligible ==
    \E i \in 1..Len(hist.deq) :
        ~FileEligible(hist.deq[i].url) /\ ~PageEligible(hist.deq[i].url)

\* C28: when a launch that is not resumed completes with no interrupt and no item
\* skipped as ineligible, successfully_scraped + failed_urls = total_discovered.
C28_Accounting ==
    (~cfg.resume_from /\ pc = "done" /\ ~hist.sigint /\ ~SkippedIneligible) =>
        summary.successfully_scraped + summary.failed_urls = summary.total_discovered

\* C29: in a full_run, every URL that the report on disk lists in scraped_urls and
\* that this launch fetched has its artifact file in the output directory.
C29_PersistPrecedesRecord ==
    (cfg.run_mode = "full_run" /\ disk.state = "ok" /\ disk.rep.scraped_at = run) =>
        \A u \in Range(disk.rep.scraped_urls) \cap hist.net : pathExists(ArtifactName(u))

\* the report on disk lists a page and a PDF that this full_run launch fetched
C29_Witness ==
    /\ cfg.run_mode = "full_run" /\ disk.state = "ok" /\ disk.rep.scraped_at = run
    /\ {Seed, UDoc} \subseteq Range(disk.rep.scraped_urls) \cap hist.net
    /\ pathExists(htmlName(Seed)) /\ pathExists(pdfName(UDoc))

\* C30: the report written by the SIGINT handler has the failed_url_list (and so
\* the failed_urls count) that was in memory when the signal arrived.
C30_InterruptRecordsNoFailure ==
    sigpc = "writing" =>
        /\ wsnap["sig"].failed_url_list = hist.atsig
        /\ wsnap["sig"].failed_urls = Len(hist.atsig)

====
